---- MODULE Spec2Model ----
(***************************************************************************)
(* Commander Card Performance analyzer (src/src/App.js).                   *)
(*                                                                         *)
(* The model covers the score aggregator computeCardScores, the App        *)
(* component's state (edges, loading, error, copyCount), its handlers      *)
(* analyze, reset and copyToClipboard, and the completion of the fetch     *)
(* started by analyze.                                                     *)
(*                                                                         *)
(* JavaScript values that may be absent are tuples: <<>> is undefined (or  *)
(* null), <<v>> is the value v.  An abrupt completion (a TypeError raised  *)
(* by a member access on undefined) is the value TypeError.                *)
(*                                                                         *)
(* Scores are IEEE doubles in the code.  Every tournament size of the      *)
(* model is a power of two, so 1 - standing/size and the sums of such      *)
(* terms are exact in binary floating point; the model keeps them as       *)
(* integers in units of 1/Scale.                                           *)
(***************************************************************************)
EXTENDS Integers, Sequences, FiniteSets, TLC

VARIABLES
    edges,          \* useState([]): the stored entry collection
    scores,         \* useMemo(() => computeCardScores(edges), [edges])
    crashed,        \* the render raised: React unmounted the component
    loading,        \* useState(false)
    error,          \* useState("")
    fetching,       \* the promise of fetchCommanderStats is pending
    copyCount,      \* useState(99): the raw value of the "Top" input
    cardName,       \* the value of the uncontrolled input #cardName
    clipboard,      \* the system clipboard, as a sequence of lines
    resetClean,     \* history: reset ran and analyze has not started since
    copied          \* history: the last step wrote finalText to the clipboard

vars == <<edges, scores, crashed, loading, error, fetching, copyCount,
          cardName, clipboard, resetClean, copied>>

----------------------------------------------------------------------------
(* Bounds of the model.                                                    *)

\* the longest response of the entry source, in entries
MaxEntries == 2
\* the most card references in one response, over all its maindecks
MaxCards == 3

\* scores are counted in units of 1/Scale; every size of the model divides it
Scale == 2 * 2

----------------------------------------------------------------------------
(* JavaScript values.                                                      *)

None == <<>>
Some(v) == <<v>>
TypeError == <<"TypeError", "TypeError">>

\* obj?.f
OptMember(obj, f) ==
    IF obj = TypeError THEN TypeError
    ELSE IF obj = None THEN None
    ELSE obj[1][f]

\* obj.f
Member(obj, f) ==
    IF obj = TypeError THEN TypeError
    ELSE IF obj = None THEN TypeError
    ELSE obj[1][f]

\* v ?? d
Coalesce(v, d) == IF v = None THEN d ELSE v

\* v || "" on a string that may be absent
OrEmpty(v) ==
    IF v = TypeError THEN TypeError
    ELSE IF v = None \/ v = Some("") THEN Some("")
    ELSE v

----------------------------------------------------------------------------
(* computeCardScores.                                                      *)

\* a faulty variant of size: node.tournament?.size ?? 0, the node unguarded
size_unguarded(n) ==
    Coalesce(OptMember(Member(n.node, "tournament"), "size"), Some(0))

\* const size = node?.tournament?.size ?? 0
size(n) == Coalesce(OptMember(OptMember(n.node, "tournament"), "size"), Some(0))

\* a faulty variant of standing: a missing standing read as 0
standing_zero(n) == Coalesce(OptMember(n.node, "standing"), Some(0))

\* const standing = node?.standing ?? size
standing(n) == Coalesce(OptMember(n.node, "standing"), size(n))

\* a faulty variant of performance: standing / size - 1
performance_flipped(n) ==
    LET sz == size(n)
        st == standing(n)
    IN IF sz = TypeError \/ st = TypeError THEN TypeError
       ELSE IF sz[1] > 0 THEN Some((st[1] * Scale) \div sz[1] - Scale)
       ELSE Some(0)

\* const performance = size > 0 ? 1 - standing / size : 0, in units of 1/Scale
performance(n) ==
    LET sz == size(n)
        st == standing(n)
    IN IF sz = TypeError \/ st = TypeError THEN TypeError
       ELSE IF sz[1] > 0 THEN Some(Scale - (st[1] * Scale) \div sz[1])
       ELSE Some(0)

\* node?.maindeck ?? []
maindeck(n) == Coalesce(OptMember(n.node, "maindeck"), Some(<<>>))

\* the position of key in the Map (insertion order), 0 when it has none
IndexOf(tally, key) ==
    IF \E i \in 1..Len(tally) : tally[i].name = key
    THEN CHOOSE i \in 1..Len(tally) : tally[i].name = key
    ELSE 0

\* a faulty variant of Accumulate: the previous score dropped
AccumulateOverwrite(prevScore, perf) == perf

\* the score the Map entry gets: prev.score + performance
Accumulate(prevScore, perf) == prevScore + perf

\* a faulty variant of AdoptPreview: the latest non-empty URL wins
AdoptPreviewLatest(prevPreview, c) ==
    LET u == OrEmpty(Member(c, "cardPreviewImageUrl"))
    IN IF u = Some("") THEN Some(prevPreview) ELSE u

\* the preview the Map entry gets: prev.preview || c.cardPreviewImageUrl || ""
AdoptPreview(prevPreview, c) ==
    IF prevPreview # "" THEN Some(prevPreview)
    ELSE OrEmpty(Member(c, "cardPreviewImageUrl"))

\* the key a card reference is tallied under: const name = c?.name
TallyKey(c) == OptMember(c, "name")

\* one call of the inner forEach callback (lines 54 to 58) on tally, a
\* sequence of Map entries in insertion order
CardStep(acc, perf, c) ==
    IF acc.threw THEN acc
    ELSE
    LET tally == acc.tally
        name == TallyKey(c)
        i == IndexOf(tally, name)
        \* tally.get(name) || { score: 0, preview: c.cardPreviewImageUrl || "" }
        fresh == OrEmpty(Member(c, "cardPreviewImageUrl"))
        prev == IF i # 0 THEN [score |-> tally[i].score, preview |-> Some(tally[i].preview)]
                ELSE [score |-> 0, preview |-> fresh]
    IN IF prev.preview = TypeError THEN [threw |-> TRUE, tally |-> tally]
       ELSE
       LET p == AdoptPreview(prev.preview[1], c)
       IN IF p = TypeError THEN [threw |-> TRUE, tally |-> tally]
          ELSE
          LET entry == [name |-> name,
                        score |-> Accumulate(prev.score, perf),
                        preview |-> p[1]]
          IN [threw |-> FALSE,
              tally |-> IF i # 0 THEN [tally EXCEPT ![i] = entry]
                        ELSE Append(tally, entry)]

RECURSIVE ForEachCard(_, _, _, _)
ForEachCard(acc, perf, deck, i) ==
    IF i > Len(deck) THEN acc
    ELSE ForEachCard(CardStep(acc, perf, deck[i]), perf, deck, i + 1)

\* one call of the outer forEach callback (lines 49 to 59)
EntryStep(acc, n) ==
    IF acc.threw THEN acc
    ELSE LET perf == performance(n)
             deck == maindeck(n)
         IN IF perf = TypeError \/ deck = TypeError
            THEN [threw |-> TRUE, tally |-> acc.tally]
            ELSE ForEachCard(acc, perf[1], deck[1], 1)

RECURSIVE ForEachEntry(_, _, _)
ForEachEntry(acc, es, i) ==
    IF i > Len(es) THEN acc
    ELSE ForEachEntry(EntryStep(acc, es[i]), es, i + 1)

\* a faulty variant of Compare: ascending
CompareAscending(a, b) == a.score - b.score

\* the comparator of the sort: (a, b) => b.score - a.score
Compare(a, b) == b.score - a.score

\* a faulty variant of InsertSorted: x goes before the elements it ties with
RECURSIVE InsertSortedUnstable(_, _)
InsertSortedUnstable(sorted, x) ==
    IF sorted = <<>> THEN <<x>>
    ELSE IF Compare(sorted[Len(sorted)], x) < 0 THEN Append(sorted, x)
    ELSE Append(InsertSortedUnstable(SubSeq(sorted, 1, Len(sorted) - 1), x),
                sorted[Len(sorted)])

\* Array.prototype.sort is stable: x goes behind every element the comparator
\* does not order after it
RECURSIVE InsertSorted(_, _)
InsertSorted(sorted, x) ==
    IF sorted = <<>> THEN <<x>>
    ELSE IF Compare(sorted[Len(sorted)], x) <= 0 THEN Append(sorted, x)
    ELSE Append(InsertSorted(SubSeq(sorted, 1, Len(sorted) - 1), x),
                sorted[Len(sorted)])

RECURSIVE SortFrom(_, _, _)
SortFrom(sorted, s, i) ==
    IF i > Len(s) THEN sorted
    ELSE SortFrom(InsertSorted(sorted, s[i]), s, i + 1)

\* .sort((a, b) => b.score - a.score)
Sort(s) == SortFrom(<<>>, s, 1)

\* computeCardScores(edges): [threw, value]
computeCardScores(es) ==
    LET acc == ForEachEntry([threw |-> FALSE, tally |-> <<>>], es, 1)
    IN IF acc.threw THEN [threw |-> TRUE, value |-> <<>>]
       ELSE [threw |-> FALSE, value |-> Sort(acc.tally)]

----------------------------------------------------------------------------
(* What the entry source can answer: sequences of at most MaxEntries edges *)
(* holding at most MaxCards card references in all.                        *)

\* a card reference { name, cardPreviewImageUrl }; either field may be absent
CardRef(name, url) == Some([name |-> name, cardPreviewImageUrl |-> url])

\* the shape of a node: its placement, and whether it holds a maindeck
Placement(st, sz) ==
    [hasNode |-> TRUE, standing |-> st, tournament |-> Some([size |-> sz]),
     hasDeck |-> TRUE]

\* an edge { node: { standing, tournament, maindeck } } of shape h whose
\* maindeck, when it has one, is deck
Edge(h, deck) ==
    IF ~h.hasNode THEN [node |-> None]
    ELSE [node |-> Some([standing |-> h.standing, tournament |-> h.tournament,
                         maindeck |-> IF h.hasDeck THEN Some(deck) ELSE None])]

RECURSIVE SumTo(_, _)
SumTo(ls, i) == IF i = 0 THEN 0 ELSE ls[i] + SumTo(ls, i - 1)

\* the response of shapes h whose i-th maindeck holds the next ls[i] of cards
Assemble(h, ls, cards) ==
    [i \in 1..Len(h) |->
        Edge(h[i], [j \in 1..ls[i] |-> cards[SumTo(ls, i - 1) + j]])]

\* maindeck lengths for the shapes h: none for a shape without maindeck, and
\* at most MaxCards in all
DeckLengths(h) ==
    { ls \in [1..Len(h) -> 0..MaxCards] :
        /\ SumTo(ls, Len(h)) <= MaxCards
        /\ \A i \in 1..Len(h) : (~h[i].hasNode \/ ~h[i].hasDeck) => ls[i] = 0 }

\* ranked play: three card names, and placements above, at and below the
\* last place of the field
RankedCards == { CardRef(Some(nm), None) : nm \in {"Sol Ring", "Mana Crypt", "Ad Nauseam"} }
RankedPlacements ==
    { Placement(Some(1), Some(2)), Placement(Some(2), Some(2)),
      Placement(Some(3), Some(2)), Placement(Some(1), Some(4)),
      Placement(Some(3), Some(4)) }

\* sparse records: card references without a name, with an empty name and
\* without any field; nodes without tournament, size, standing or maindeck;
\* edges without node
SparseCards == { CardRef(Some("Sol Ring"), None), CardRef(Some(""), None), CardRef(None, None) }
NoNode == [hasNode |-> FALSE]
NoTournament == [hasNode |-> TRUE, standing |-> Some(1), tournament |-> None, hasDeck |-> TRUE]
NoDeck == [hasNode |-> TRUE, standing |-> None, tournament |-> Some([size |-> None]),
           hasDeck |-> FALSE]
SparsePlacements ==
    { NoNode, NoDeck, NoTournament, Placement(Some(1), Some(0)),
      Placement(None, Some(4)), Placement(Some(1), Some(4)), Placement(Some(1), Some(2)) }

\* previews: one card name with no, an empty and two different preview URLs,
\* and a second name
PreviewCards ==
    { CardRef(Some("Sol Ring"), url) : url \in {None, Some(""), Some("u1"), Some("u2")} }
    \cup { CardRef(Some("Mana Crypt"), Some("u2")) }
PreviewPlacements == { Placement(Some(1), Some(2)) }

\* export: two card names
ExportCards == { CardRef(Some(nm), None) : nm \in {"Sol Ring", "Mana Crypt"} }
ExportPlacements == { Placement(Some(1), Some(2)) }

\* what a rejected fetch carries as e?.message
Rejections == { None, Some(""), Some("Network error: 500"), Some("Unknown GraphQL error") }

\* what the user types into the "Top" input and into #cardName
CopyCounts == { "", "0", "-1", "2" }
CardNames == { "", " Kinnan " }

----------------------------------------------------------------------------
(* The App component.                                                      *)

\* the re-render after setEdges: useMemo recomputes scores, and a throw in
\* the render unmounts the component
Render(es) ==
    LET r == computeCardScores(es)
    IN /\ scores' = r.value
       /\ crashed' = r.threw

\* analyze (lines 71 to 76, up to the await); the Analyze button is disabled
\* while loading (line 162)
Analyze ==
    /\ ~crashed
    /\ ~loading
    /\ error' = ""
    /\ loading' = TRUE
    /\ edges' = <<>>
    /\ Render(<<>>)
    /\ fetching' = TRUE
    /\ resetClean' = FALSE
    /\ copied' = FALSE
    /\ UNCHANGED <<copyCount, cardName, clipboard>>

\* analyze (lines 77 and 81): fetchCommanderStats resolved with data
Resolve(data) ==
    /\ edges' = data
    /\ Render(data)
    /\ loading' = FALSE
    /\ fetching' = FALSE
    /\ copied' = FALSE
    /\ UNCHANGED <<error, copyCount, cardName, clipboard, resetClean>>

\* the fetch resolves with some response over shapes hs and card references cs
ResolveOver(hs, cs) ==
    /\ ~crashed
    /\ fetching
    /\ \E e \in 0..MaxEntries : \E h \in [1..e -> hs] :
         \E ls \in DeckLengths(h) : \E cards \in [1..SumTo(ls, e) -> cs] :
            Resolve(Assemble(h, ls, cards))

\* analyze (lines 78 to 81): fetchCommanderStats rejected with e
FetchReject ==
    /\ ~crashed
    /\ fetching
    /\ \E e \in Rejections :
         error' = IF e = None \/ e = Some("") THEN "Something went wrong" ELSE e[1]
    /\ loading' = FALSE
    /\ fetching' = FALSE
    /\ copied' = FALSE
    /\ UNCHANGED <<edges, scores, crashed, copyCount, cardName, clipboard, resetClean>>

\* reset (lines 85 to 88)
Reset ==
    /\ ~crashed
    /\ edges' = <<>>
    /\ Render(<<>>)
    /\ error' = ""
    /\ resetClean' = TRUE
    /\ copied' = FALSE
    /\ UNCHANGED <<loading, fetching, copyCount, cardName, clipboard>>

\* onChange of the "Top" input (line 188), rendered while scores.length > 0
SetCopyCount ==
    /\ ~crashed
    /\ Len(scores) > 0
    /\ \E v \in CopyCounts : copyCount' = v
    /\ copied' = FALSE
    /\ UNCHANGED <<edges, scores, crashed, loading, error, fetching, cardName,
                   clipboard, resetClean>>

\* the user edits the uncontrolled input #cardName (line 135)
TypeCardName ==
    /\ ~crashed
    /\ \E v \in CardNames : cardName' = v
    /\ copied' = FALSE
    /\ UNCHANGED <<edges, scores, crashed, loading, error, fetching, copyCount,
                   clipboard, resetClean>>

\* Number(v) of the values the "Top" input takes
Number(v) ==
    CASE v = "99" -> 99
      [] v = "2" -> 2
      [] v = "-1" -> 0 - 1
      [] v = "0" -> 0
      [] v = "" -> 0

\* value.trim() of the values #cardName takes
Trim(v) == CASE v = " Kinnan " -> "Kinnan" [] OTHER -> v

Max(a, b) == IF a >= b THEN a ELSE b
Min(a, b) == IF a <= b THEN a ELSE b

\* a faulty variant of ClampCount: Math.max(1, ...) left out
ClampCountNoFloor(len, v) ==
    Min(len, IF Number(v) = 0 THEN 1 ELSE Number(v))

\* const n = Math.max(1, Math.min(scores.length, Number(copyCount) || 1))
ClampCount(len, v) ==
    Max(1, Min(len, IF Number(v) = 0 THEN 1 ELSE Number(v)))

\* s.slice(0, n)
Slice(s, n) ==
    LET end == IF n < 0 THEN Max(Len(s) + n, 0) ELSE Min(n, Len(s))
    IN SubSeq(s, 1, end)

\* `${v}` of a name that may be absent
Text(v) == IF v = None THEN "undefined" ELSE v[1]

\* the lines of list.join("\n")
JoinLines(list) == IF list = <<>> THEN <<"">> ELSE list

\* finalText (lines 110 to 112), as a sequence of lines
FinalText(ss, count, anchor) ==
    LET n == ClampCount(Len(ss), count)
        sl == Slice(ss, n)
        list == [i \in 1..Len(sl) |-> "1 " \o Text(sl[i].name)]
    IN JoinLines(list) \o <<"", "1 " \o Trim(anchor)>>

\* copyToClipboard (lines 109 to 114); the Copy button is rendered while
\* scores.length > 0 (line 181), and a rejected writeText is swallowed
CopyToClipboard ==
    /\ ~crashed
    /\ Len(scores) > 0
    /\ \E written \in BOOLEAN :
         /\ clipboard' = IF written THEN FinalText(scores, copyCount, cardName)
                         ELSE clipboard
         /\ copied' = written
    /\ UNCHANGED <<edges, scores, crashed, loading, error, fetching, copyCount,
                   cardName, resetClean>>

Init ==
    /\ edges = <<>>
    /\ scores = computeCardScores(<<>>).value
    /\ crashed = FALSE
    /\ loading = FALSE
    /\ error = ""
    /\ fetching = FALSE
    /\ copyCount = "99"
    /\ cardName = ""
    /\ clipboard = <<>>
    /\ resetClean = FALSE
    /\ copied = FALSE

----------------------------------------------------------------------------
(* Specifications: the component under the responses of one kind.          *)

FetchResolve == ResolveOver(RankedPlacements, RankedCards)
Next == Analyze \/ FetchResolve \/ FetchReject \/ Reset
Spec == Init /\ [][Next]_vars

FetchResolveSparse == ResolveOver(SparsePlacements, SparseCards)
NextSparse == Analyze \/ FetchResolveSparse \/ FetchReject \/ Reset
SpecSparse == Init /\ [][NextSparse]_vars

FetchResolvePreview == ResolveOver(PreviewPlacements, PreviewCards)
NextPreview == Analyze \/ FetchResolvePreview \/ FetchReject \/ Reset
SpecPreview == Init /\ [][NextPreview]_vars

FetchResolveExport == ResolveOver(ExportPlacements, ExportCards)
NextExport ==
    \/ Analyze \/ FetchResolveExport \/ FetchReject \/ Reset
    \/ SetCopyCount \/ TypeCardName \/ CopyToClipboard
SpecExport == Init /\ [][NextExport]_vars

----------------------------------------------------------------------------
(* Reading a response as the specification describes it: the maindeck of   *)
(* an entry, the card references in encounter order, the fields of each.   *)

DeckOf(n) ==
    IF n.node = None THEN <<>>
    ELSE IF n.node[1].maindeck = None THEN <<>>
    ELSE n.node[1].maindeck[1]

StandingOf(n) == IF n.node = None THEN None ELSE n.node[1].standing

SizeOf(n) ==
    IF n.node = None THEN None
    ELSE IF n.node[1].tournament = None THEN None
    ELSE n.node[1].tournament[1].size

NameOf(c) == c[1].name
UrlOf(c) == IF c[1].cardPreviewImageUrl = None THEN "" ELSE c[1].cardPreviewImageUrl[1]

\* how often the name key occurs in the maindeck of n
CountIn(n, key) ==
    Cardinality({ j \in 1..Len(DeckOf(n)) : NameOf(DeckOf(n)[j]) = key })

\* every card reference of es, in entry order and then card order
RECURSIVE FlatCards(_, _)
FlatCards(es, i) == IF i = 0 THEN <<>> ELSE FlatCards(es, i - 1) \o DeckOf(es[i])

\* the names that occur in es
NamesIn(es) ==
    LET cs == FlatCards(es, Len(es)) IN { NameOf(cs[k]) : k \in 1..Len(cs) }

\* where the name key occurs first in encounter order
FirstSeen(es, key) ==
    LET cs == FlatCards(es, Len(es))
        at == { k \in 1..Len(cs) : NameOf(cs[k]) = key }
    IN CHOOSE k \in at : \A m \in at : k <= m

\* the records of the result are those of the names that occur, one each
OneRecordPerName ==
    /\ \A key \in NamesIn(edges) : \E k \in 1..Len(scores) : scores[k].name = key
    /\ \A k \in 1..Len(scores) : scores[k].name \in NamesIn(edges)
    /\ \A k, m \in 1..Len(scores) : scores[k].name = scores[m].name => k = m

----------------------------------------------------------------------------
(* C1 *)

RECURSIVE SumOfPerformance(_, _, _)
SumOfPerformance(es, key, i) ==
    IF i = 0 THEN 0
    ELSE SumOfPerformance(es, key, i - 1) + performance(es[i])[1] * CountIn(es[i], key)

\* C1: the score reported for a card name is the sum, over every occurrence
\* of the name in any maindeck (an occurrence repeated in one deck counted
\* each time), of the performance weight of the occurrence's entry.
C1_ScoreIsSumOfWeights ==
    /\ OneRecordPerName
    /\ \A k \in 1..Len(scores) :
          scores[k].score = SumOfPerformance(edges, scores[k].name, Len(edges))

\* a name in both of two entries of different non-zero weight, twice in one
C1_Witness ==
    /\ Len(edges) = 2
    /\ performance(edges[1])[1] # 0
    /\ performance(edges[2])[1] # 0
    /\ performance(edges[1])[1] # performance(edges[2])[1]
    /\ \E k \in 1..Len(scores) :
          /\ CountIn(edges[1], scores[k].name) = 2
          /\ CountIn(edges[2], scores[k].name) = 1

----------------------------------------------------------------------------
(* C2 *)

\* C2: a card reference whose name is absent or empty is skipped: no record
\* with an absent or empty name appears in the result.
C2_NamelessSkipped ==
    \A k \in 1..Len(scores) : scores[k].name \notin {None, Some("")}

----------------------------------------------------------------------------
(* C3 *)

\* C3 as stated: every record of the result has a non-negative score.
C3_NonNegative ==
    \A k \in 1..Len(scores) : scores[k].score >= 0

\* no entry is placed behind the last place of a field of known size
StandingWithinField(es) ==
    \A i \in 1..Len(es) :
       \/ SizeOf(es[i]) = None
       \/ StandingOf(es[i]) = None
       \/ SizeOf(es[i])[1] = 0
       \/ StandingOf(es[i])[1] <= SizeOf(es[i])[1]

\* C3, amended: every record of the result has a non-negative score when no
\* entry's standing exceeds its tournament size.
C3_NonNegativeWithinField ==
    StandingWithinField(edges) => \A k \in 1..Len(scores) : scores[k].score >= 0

\* entries within their fields, one of them in last place, and a positive score
C3_Witness ==
    /\ Len(edges) = 2
    /\ StandingWithinField(edges)
    /\ \E i \in 1..2 : /\ SizeOf(edges[i])[1] > 0
                       /\ StandingOf(edges[i]) = SizeOf(edges[i])
                       /\ Len(DeckOf(edges[i])) > 0
    /\ \E k \in 1..Len(scores) : scores[k].score > 0
    /\ \E k \in 1..Len(scores) : scores[k].score = 0

----------------------------------------------------------------------------
(* C4 *)

\* the weight of an entry as the specification gives it, in units of 1/Scale
WeightOf(n) ==
    IF SizeOf(n) = None THEN 0
    ELSE IF SizeOf(n)[1] <= 0 THEN 0
    ELSE IF StandingOf(n) = None THEN 0
    ELSE (Scale * (SizeOf(n)[1] - StandingOf(n)[1])) \div SizeOf(n)[1]

RECURSIVE SumOfWeights(_, _, _)
SumOfWeights(es, key, i) ==
    IF i = 0 THEN 0
    ELSE SumOfWeights(es, key, i - 1) + WeightOf(es[i]) * CountIn(es[i], key)

\* C4: an entry weighs 1 - standing/size when size > 0, and exactly 0 when
\* its size is absent or 0 (whatever its standing) or its standing is absent;
\* the scores are the sums of these weights.
C4_WeightOfEntry ==
    /\ ~crashed
    /\ \A k \in 1..Len(scores) :
          scores[k].score = SumOfWeights(edges, scores[k].name, Len(edges))

\* an entry of unknown or zero size with a standing, and an entry of known
\* size without standing, each with cards
C4_Witness ==
    /\ Len(edges) = 2
    /\ \E i \in 1..2 :
          /\ SizeOf(edges[i]) \in {None, Some(0)}
          /\ StandingOf(edges[i]) # None
          /\ Len(DeckOf(edges[i])) > 0
    /\ \E i \in 1..2 :
          /\ SizeOf(edges[i]) \notin {None, Some(0)}
          /\ StandingOf(edges[i]) = None
          /\ Len(DeckOf(edges[i])) > 0
    /\ Len(scores) > 0

----------------------------------------------------------------------------
(* C5 *)

\* C5: the result is sorted by score descending: a.score >= b.score for
\* every adjacent pair (a, b).
C5_SortedDescending ==
    \A k \in 1..(Len(scores) - 1) : scores[k].score >= scores[k + 1].score

\* three records, the name encountered last ranked first with the highest
\* score
C5_Witness ==
    /\ Len(scores) = 3
    /\ scores[1].score > scores[2].score
    /\ scores[2].score >= scores[3].score
    /\ FirstSeen(edges, scores[1].name) > FirstSeen(edges, scores[2].name)
    /\ FirstSeen(edges, scores[1].name) > FirstSeen(edges, scores[3].name)

----------------------------------------------------------------------------
(* C6 *)

\* the first non-empty preview URL among the occurrences of key, or ""
FirstNonEmptyUrl(es, key) ==
    LET cs == FlatCards(es, Len(es))
        at == { k \in 1..Len(cs) : NameOf(cs[k]) = key /\ UrlOf(cs[k]) # "" }
    IN IF at = {} THEN ""
       ELSE UrlOf(cs[CHOOSE k \in at : \A m \in at : k <= m])

\* C6: the preview URL reported for a name is the first non-empty preview
\* URL among the name's occurrences in encounter order, and "" if there is
\* none.
C6_FirstNonEmptyPreview ==
    /\ OneRecordPerName
    /\ \A k \in 1..Len(scores) :
          scores[k].preview = FirstNonEmptyUrl(edges, scores[k].name)

\* a name first without URL, then with one in a later entry, then with
\* another
C6_Witness ==
    /\ Len(edges) = 2
    /\ Len(DeckOf(edges[1])) = 1
    /\ Len(DeckOf(edges[2])) = 2
    /\ LET cs == FlatCards(edges, 2)
       IN /\ NameOf(cs[1]) = NameOf(cs[2])
          /\ NameOf(cs[2]) = NameOf(cs[3])
          /\ UrlOf(cs[1]) = ""
          /\ UrlOf(cs[2]) = "u1"
          /\ UrlOf(cs[3]) = "u2"
          /\ Len(scores) = 1
          /\ scores[1].preview = "u1"

----------------------------------------------------------------------------
(* C7 *)

\* C7: computeCardScores raises no exception, and returns the empty sequence
\* for an empty input.
C7_NeverRaises ==
    /\ ~crashed
    /\ edges = <<>> => scores = <<>>
    /\ edges # <<>> => OneRecordPerName

\* an edge without node before a node without tournament whose maindeck
\* holds a card reference without fields
C7_Witness ==
    /\ Len(edges) = 2
    /\ edges[1].node = None
    /\ edges[2].node # None
    /\ edges[2].node[1].tournament = None
    /\ \E j \in 1..Len(DeckOf(edges[2])) :
          /\ NameOf(DeckOf(edges[2])[j]) = None
          /\ DeckOf(edges[2])[j][1].cardPreviewImageUrl = None
    /\ ~crashed

----------------------------------------------------------------------------
(* C8 *)

\* the requested count clamped to [1, len]
ClampedTo(len, req) == IF req > len THEN len ELSE IF req < 1 THEN 1 ELSE req

\* C8: the export holds one line "1 <cardName>" for each of the first n
\* cards of the ranked list in ranked order, n being the requested count
\* clamped to [1, length(scores)], then a blank line and "1 <anchorName>".
C8_ExportOfTopN ==
    copied =>
       LET n == ClampedTo(Len(scores), Number(copyCount))
       IN /\ Len(clipboard) = n + 2
          /\ \A i \in 1..n : clipboard[i] = "1 " \o Text(scores[i].name)
          /\ clipboard[n + 1] = ""
          /\ clipboard[n + 2] = "1 " \o Trim(cardName)

\* a copy of more cards than the two ranked, with an anchor typed in
C8_Witness ==
    /\ copied
    /\ Len(scores) = 2
    /\ Number(copyCount) > 2
    /\ Trim(cardName) # ""

----------------------------------------------------------------------------
(* C9 *)

\* C9: after reset, edges and the ranked list stay empty until the next
\* analyze is started.
C9_EmptyAfterReset ==
    resetClean => (edges = <<>> /\ scores = <<>>)

----------------------------------------------------------------------------
(* C10 *)

\* C10: records of equal score appear in the order in which their names
\* were first encountered in the input.
C10_TiesInEncounterOrder ==
    \A a, b \in 1..Len(scores) :
       (a < b /\ scores[a].score = scores[b].score)
          => FirstSeen(edges, scores[a].name) < FirstSeen(edges, scores[b].name)

\* two names of equal non-zero score behind a name encountered after them
C10_Witness ==
    /\ Len(scores) = 3
    /\ scores[1].score > scores[2].score
    /\ scores[2].score = scores[3].score
    /\ scores[2].score # 0
    /\ FirstSeen(edges, scores[1].name) > FirstSeen(edges, scores[3].name)

====
